---- MODULE Spec2Model ----
(***************************************************************************)
(* hecs-component-provider: the derive macros ComponentProvider and        *)
(* SelfComponentProvider, the attribute macro default_trait_impl and the   *)
(* declarative macro gen_tuple_query_component_providers, as state         *)
(* machines over syntax trees and token trees.                             *)
(***************************************************************************)
EXTENDS Integers, Sequences, FiniteSets, TLC

VARIABLES
    gen,                \* the macro being expanded
    input,              \* its parsed input (DeriveInput, ItemTrait) or alias
    pc,                 \* position inside the expansion
    stream_refs,        \* derive: local of the same name
    stream_muts,        \* derive: local of the same name
    stream_option_refs, \* derive: local of the same name
    result,             \* the Result<TokenStream2> the inner function returned
    output,             \* the TokenStream handed back to the compiler
    inv,                \* macro_rules: token trees of the current invocation
    depth,              \* macro_rules: number of recursive expansions so far
    gensyms,            \* identifiers handed out by gensym so far
    unit                \* macro_rules: the expansions of the crate that have ended

vars == <<gen, input, pc, stream_refs, stream_muts, stream_option_refs,
          result, output, inv, depth, gensyms, unit>>

----------------------------------------------------------------------------
(* Bounds of the model *)

MaxFields == 2
MaxSupertraits == 2
\* Depth of parenthesized groups inside the tuple.
MaxNesting == 4
\* rustc's recursion_limit, scaled down to the expansions of the model.
RecursionLimit == 48

----------------------------------------------------------------------------
(* syn::Type, as far as the macros look into it *)

None == [k |-> "none"]
NoLifetime == "none"

PathSegment(ident, args) == [ident |-> ident, args |-> args]
TypePath(segments) == [k |-> "path", segments |-> segments]
TypeReference(lifetime, mutability, elem) ==
    [k |-> "ref", lifetime |-> lifetime, mutability |-> mutability, elem |-> elem]

Plain(name) == TypePath(<<PathSegment(name, <<>>)>>)
Generic(name, arg) == TypePath(<<PathSegment(name, <<arg>>)>>)
Qualified(arg) ==
    TypePath(<<PathSegment("std", <<>>), PathSegment("option", <<>>),
               PathSegment("Option", <<arg>>)>>)

\* The field types the inputs are built from, every reference of a type
\* carrying the lifetime lt.
Shapes(lt) ==
    LET R(m, e) == TypeReference(lt, m, e)
        I32 == Plain("i32")
        Bool == Plain("bool")
    IN  { I32, Bool,
          R(FALSE, I32), R(TRUE, I32),
          R(FALSE, R(TRUE, I32)), R(TRUE, R(FALSE, I32)),
          Generic("Option", I32),
          Generic("Option", R(FALSE, Bool)),
          Generic("Option", R(TRUE, I32)),
          Generic("Option", R(FALSE, R(TRUE, I32))),
          Generic("Vec", R(TRUE, I32)),
          Qualified(R(FALSE, I32)) }

FieldTypes == Shapes(NoLifetime) \cup Shapes("'a")

----------------------------------------------------------------------------
(* component_provider.rs: helpers over types *)

extract_ref_type(t) ==
    IF t.k = "ref" THEN t.elem ELSE None

extract_option_type(t) ==
    IF t.k = "path"
    THEN IF Len(t.segments) = 0 THEN None
         ELSE LET segment == t.segments[1]
              IN  IF segment.ident = "Option" /\ Len(segment.args) > 0
                  THEN extract_ref_type(segment.args[1])
                  ELSE None
    ELSE None

\* Variant: the visitor also walks into the referent of a reference.
RECURSIVE is_mutable_type_ref_deep(_)
is_mutable_type_ref_deep(ty) ==
    IF ty.k = "ref"
    THEN ty.mutability \/ is_mutable_type_ref_deep(ty.elem)
    ELSE \E i \in DOMAIN ty.segments :
            \E j \in DOMAIN ty.segments[i].args :
                is_mutable_type_ref_deep(ty.segments[i].args[j])

\* The visitor overrides visit_type_reference without calling the default
\* walk, so the walk stops at the first reference of every branch.
RECURSIVE is_mutable_type_ref(_)
is_mutable_type_ref(ty) ==
    IF ty.k = "ref"
    THEN ty.mutability
    ELSE \E i \in DOMAIN ty.segments :
            \E j \in DOMAIN ty.segments[i].args :
                is_mutable_type_ref(ty.segments[i].args[j])

RECURSIVE remove_type_mutability(_)
remove_type_mutability(ty) ==
    IF ty.k = "ref"
    THEN [ty EXCEPT !.mutability = FALSE]
    ELSE [ty EXCEPT !.segments =
            [i \in DOMAIN ty.segments |->
                [ty.segments[i] EXCEPT !.args =
                    [j \in DOMAIN ty.segments[i].args |->
                        remove_type_mutability(ty.segments[i].args[j])]]]]

\* Variant: the visitor also walks into the referent of a reference.
RECURSIVE remove_type_lifetime_deep(_)
remove_type_lifetime_deep(ty) ==
    IF ty.k = "ref"
    THEN [ty EXCEPT !.lifetime = NoLifetime,
                    !.elem = remove_type_lifetime_deep(ty.elem)]
    ELSE [ty EXCEPT !.segments =
            [i \in DOMAIN ty.segments |->
                [ty.segments[i] EXCEPT !.args =
                    [j \in DOMAIN ty.segments[i].args |->
                        remove_type_lifetime_deep(ty.segments[i].args[j])]]]]

RECURSIVE remove_type_lifetime(_)
remove_type_lifetime(ty) ==
    IF ty.k = "ref"
    THEN [ty EXCEPT !.lifetime = NoLifetime]
    ELSE [ty EXCEPT !.segments =
            [i \in DOMAIN ty.segments |->
                [ty.segments[i] EXCEPT !.args =
                    [j \in DOMAIN ty.segments[i].args |->
                        remove_type_lifetime(ty.segments[i].args[j])]]]]

----------------------------------------------------------------------------
(* Results, errors and emitted items *)

Ok(ts) == [ok |-> TRUE, ts |-> ts]
Err(span, msg) == [ok |-> FALSE, span |-> span, msg |-> msg]

\* One emitted `impl [<'a>] Trait<component> for self_ty[<'a>]` with its one
\* method: the return type and the body (kind of expression, member used).
Impl(trait, component, self_ty, lifetime, method, ret, expr, member) ==
    [k |-> "impl", trait |-> trait, component |-> component,
     self_ty |-> self_ty, lifetime |-> lifetime, method |-> method,
     ret |-> ret, expr |-> expr, member |-> member]

\* filter_map: the closure's results that are not None, in order.
FilterMap(results) == SelectSeq(results, LAMBDA r : r # None)

----------------------------------------------------------------------------
(* component_provider.rs *)

StructType(lifetimes) == IF Len(lifetimes) = 0 THEN "Bundle" ELSE "Query"

Member(fields, i) ==
    IF fields.k = "named"
    THEN [k |-> "named", ident |-> fields.list[i].ident]
    ELSE [k |-> "unnamed", index |-> i - 1]

\* Variant: a Query struct with a field that is neither a reference nor an
\* Option of a reference is refused.
decompose_derive_input_strict(in) ==
    IF in.data.k # "struct"
    THEN Err("ident", "derive(ComponentProvider) may only be applied to structs")
    ELSE
    LET lifetimes == SelectSeq(in.generics, LAMBDA p : p = "lifetime")
        list == in.data.fields.list
        types == [i \in DOMAIN list |-> list[i].ty]
    IN  IF Len(lifetimes) > 1
        THEN Err("generics", "must have <= 1 lifetime parameter")
        ELSE IF Len(in.generics) # Len(lifetimes)
        THEN Err("ident", "must have no type parameters")
        ELSE IF /\ Len(lifetimes) = 1
                /\ \E i \in DOMAIN types :
                    extract_ref_type(types[i]) = None
                        /\ extract_option_type(types[i]) = None
        THEN Err("ident", "unsupported field type")
        ELSE [ok |-> TRUE,
              ident |-> in.ident,
              fields |-> [i \in DOMAIN list |-> Member(in.data.fields, i)],
              types |-> types,
              ref_types |-> [i \in DOMAIN types |-> extract_ref_type(types[i])],
              option_types |-> [i \in DOMAIN types |-> extract_option_type(types[i])],
              struct_type |-> StructType(lifetimes)]

decompose_derive_input(in) ==
    IF in.data.k # "struct"
    THEN Err("ident", "derive(ComponentProvider) may only be applied to structs")
    ELSE
    LET lifetimes == SelectSeq(in.generics, LAMBDA p : p = "lifetime")
        list == in.data.fields.list
        types == [i \in DOMAIN list |-> list[i].ty]
    IN  IF Len(lifetimes) > 1
        THEN Err("generics", "must have <= 1 lifetime parameter")
        ELSE IF Len(in.generics) # Len(lifetimes)
        THEN Err("ident", "must have no type parameters")
        ELSE [ok |-> TRUE,
              ident |-> in.ident,
              fields |-> [i \in DOMAIN list |-> Member(in.data.fields, i)],
              types |-> types,
              ref_types |-> [i \in DOMAIN types |-> extract_ref_type(types[i])],
              option_types |-> [i \in DOMAIN types |-> extract_option_type(types[i])],
              struct_type |-> StructType(lifetimes)]

\* Variant: a field is skipped when an earlier field has its component type.
derive_refs_once_per_type(in) ==
    LET d == decompose_derive_input(in)
    IN  IF ~d.ok THEN d
        ELSE IF d.struct_type = "Bundle"
        THEN Ok(FilterMap([i \in DOMAIN d.types |->
                IF \A j \in 1..(i - 1) : d.types[j] # d.types[i]
                THEN
                  Impl("ComponentProvider", d.types[i], d.ident, FALSE, "get",
                       TypeReference(NoLifetime, FALSE, d.types[i]),
                       "&self.field", d.fields[i])
                ELSE None]))
        ELSE Ok(FilterMap([i \in DOMAIN d.types |->
                IF /\ d.ref_types[i] # None
                   /\ \A j \in 1..(i - 1) : d.ref_types[j] # d.ref_types[i]
                THEN
                  Impl("ComponentProvider", d.ref_types[i], d.ident, TRUE, "get",
                       remove_type_lifetime(remove_type_mutability(d.types[i])),
                       "self.field", d.fields[i])
                ELSE None]))

\* Variant: get is left to the fields that are shared references.
derive_refs_shared_only(in) ==
    LET d == decompose_derive_input(in)
    IN  IF ~d.ok THEN d
        ELSE IF d.struct_type = "Bundle"
        THEN Ok([i \in DOMAIN d.types |->
                Impl("ComponentProvider", d.types[i], d.ident, FALSE, "get",
                     TypeReference(NoLifetime, FALSE, d.types[i]),
                     "&self.field", d.fields[i])])
        ELSE Ok(FilterMap([i \in DOMAIN d.types |->
                IF d.ref_types[i] # None /\ ~is_mutable_type_ref(d.types[i])
                THEN
                  Impl("ComponentProvider", d.ref_types[i], d.ident, TRUE, "get",
                       remove_type_lifetime(remove_type_mutability(d.types[i])),
                       "self.field", d.fields[i])
                ELSE None]))

derive_refs(in) ==
    LET d == decompose_derive_input(in)
    IN  IF ~d.ok THEN d
        ELSE IF d.struct_type = "Bundle"
        THEN Ok([i \in DOMAIN d.types |->
                Impl("ComponentProvider", d.types[i], d.ident, FALSE, "get",
                     TypeReference(NoLifetime, FALSE, d.types[i]),
                     "&self.field", d.fields[i])])
        ELSE Ok(FilterMap([i \in DOMAIN d.types |->
                IF d.ref_types[i] # None
                THEN
                  Impl("ComponentProvider", d.ref_types[i], d.ident, TRUE, "get",
                       remove_type_lifetime(remove_type_mutability(d.types[i])),
                       "self.field", d.fields[i])
                ELSE None]))

derive_muts(in) ==
    LET d == decompose_derive_input(in)
    IN  IF ~d.ok THEN d
        ELSE IF d.struct_type = "Bundle"
        THEN Ok([i \in DOMAIN d.types |->
                Impl("ComponentProviderMut", d.types[i], d.ident, FALSE, "get_mut",
                     TypeReference(NoLifetime, TRUE, d.types[i]),
                     "&mut self.field", d.fields[i])])
        ELSE Ok(FilterMap([i \in DOMAIN d.types |->
                IF is_mutable_type_ref(d.types[i]) /\ d.ref_types[i] # None
                THEN
                  Impl("ComponentProviderMut", d.ref_types[i], d.ident, TRUE, "get_mut",
                       remove_type_lifetime(d.types[i]),
                       "self.field", d.fields[i])
                ELSE None]))

\* Variant: no Bundle arm, the fields of every struct are classified.
derive_option_refs_any_struct(in) ==
    LET d == decompose_derive_input(in)
    IN  IF ~d.ok THEN d
        ELSE Ok(FilterMap([i \in DOMAIN d.types |->
                IF d.option_types[i] # None
                THEN
                  Impl("ComponentProviderOptional", d.option_types[i], d.ident, TRUE,
                       "get_optional",
                       remove_type_lifetime(remove_type_mutability(d.types[i])),
                       "Some(&*v)", d.fields[i])
                ELSE None]))

\* Variant: the is_mutable_type_ref test of the filter is left out.
derive_option_muts_unfiltered(in) ==
    LET d == decompose_derive_input(in)
    IN  IF ~d.ok THEN d
        ELSE IF d.struct_type = "Bundle"
        THEN Ok(<<>>)
        ELSE Ok(FilterMap([i \in DOMAIN d.types |->
                IF d.option_types[i] # None
                THEN
                  Impl("ComponentProviderOptionalMut", d.option_types[i], d.ident, TRUE,
                       "get_optional_mut",
                       remove_type_lifetime(d.types[i]),
                       "Some(&mut *v)", d.fields[i])
                ELSE None]))

derive_option_refs(in) ==
    LET d == decompose_derive_input(in)
    IN  IF ~d.ok THEN d
        ELSE IF d.struct_type = "Bundle"
        THEN Ok(<<>>)
        ELSE Ok(FilterMap([i \in DOMAIN d.types |->
                IF d.option_types[i] # None
                THEN
                  Impl("ComponentProviderOptional", d.option_types[i], d.ident, TRUE,
                       "get_optional",
                       remove_type_lifetime(remove_type_mutability(d.types[i])),
                       "Some(&*v)", d.fields[i])
                ELSE None]))

derive_option_muts(in) ==
    LET d == decompose_derive_input(in)
    IN  IF ~d.ok THEN d
        ELSE IF d.struct_type = "Bundle"
        THEN Ok(<<>>)
        ELSE Ok(FilterMap([i \in DOMAIN d.types |->
                IF is_mutable_type_ref(d.types[i]) /\ d.option_types[i] # None
                THEN
                  Impl("ComponentProviderOptionalMut", d.option_types[i], d.ident, TRUE,
                       "get_optional_mut",
                       remove_type_lifetime(d.types[i]),
                       "Some(&mut *v)", d.fields[i])
                ELSE None]))

----------------------------------------------------------------------------
(* self_component_provider.rs *)

\* Variant: one lifetime parameter is let through, as ComponentProvider does.
self_derive_one_lifetime(in) ==
    IF in.data.k # "struct"
    THEN Err("ident", "derive(SelfComponentProvider) may only be applied to structs")
    ELSE
    LET lifetimes == SelectSeq(in.generics, LAMBDA p : p = "lifetime")
        self_ty == Plain(in.ident)
    IN  IF Len(lifetimes) > 1
        THEN Err("generics", "must have no lifetime parameters")
        ELSE IF Len(in.generics) # Len(lifetimes)
        THEN Err("ident", "must have no type parameters")
        ELSE Ok(<<Impl("ComponentProvider", self_ty, in.ident, FALSE, "get",
                       TypeReference(NoLifetime, FALSE, self_ty),
                       "self", None),
                  Impl("ComponentProviderMut", self_ty, in.ident, FALSE, "get_mut",
                       TypeReference(NoLifetime, TRUE, self_ty),
                       "self", None)>>)

self_derive(in) ==
    IF in.data.k # "struct"
    THEN Err("ident", "derive(SelfComponentProvider) may only be applied to structs")
    ELSE
    LET lifetimes == SelectSeq(in.generics, LAMBDA p : p = "lifetime")
        self_ty == Plain(in.ident)
    IN  IF Len(lifetimes) > 0
        THEN Err("generics", "must have no lifetime parameters")
        ELSE IF Len(in.generics) > 0
        THEN Err("ident", "must have no type parameters")
        ELSE Ok(<<Impl("ComponentProvider", self_ty, in.ident, FALSE, "get",
                       TypeReference(NoLifetime, FALSE, self_ty),
                       "self", None),
                  Impl("ComponentProviderMut", self_ty, in.ident, FALSE, "get_mut",
                       TypeReference(NoLifetime, TRUE, self_ty),
                       "self", None)>>)

----------------------------------------------------------------------------
(* default_trait_impl.rs *)

\* Variant: a trait without supertraits is refused.
generate_needs_supertraits(in) ==
    IF Len(in.supertraits) = 0
    THEN Err("ident", "trait has no supertraits")
    ELSE Ok(<<in,
              [k |-> "blanket_impl", trait |-> in.ident, generics |-> <<"T">>,
               self_ty |-> "T", bounds |-> in.supertraits, items |-> <<>>]>>)

generate(in) ==
    Ok(<<in,
         [k |-> "blanket_impl", trait |-> in.ident, generics |-> <<"T">>,
          self_ty |-> "T", bounds |-> in.supertraits, items |-> <<>>]>>)

----------------------------------------------------------------------------
(* macros/lib.rs: what a proc macro hands back *)

to_compile_error(e) == <<[k |-> "compile_error", span |-> e.span, msg |-> e.msg]>>

\* Variant: an error is dropped instead of being turned into a diagnostic.
EmitNothingOnError(r) == IF r.ok THEN r.ts ELSE <<>>

Emit(r) == IF r.ok THEN r.ts ELSE to_compile_error(r)

----------------------------------------------------------------------------
(* Inputs *)

FieldNames == <<"x", "y", "z", "w">>

SeqsUpTo(S, n) == UNION {[1..m -> S] : m \in 0..n}

\* syn::Fields of a struct whose field types are tys.
NamedFields(tys) ==
    [k |-> "named",
     list |-> [i \in DOMAIN tys |-> [ident |-> FieldNames[i], ty |-> tys[i]]]]
UnnamedFields(tys) ==
    [k |-> "unnamed", list |-> [i \in DOMAIN tys |-> [ident |-> None, ty |-> tys[i]]]]
UnitFields == [k |-> "unit", list |-> <<>>]

FieldsUpTo(n) ==
    {UnitFields}
        \cup {NamedFields(tys) : tys \in SeqsUpTo(FieldTypes, n)}
        \cup {UnnamedFields(tys) : tys \in SeqsUpTo(FieldTypes, n)}

\* syn::Generics::params, by kind of parameter.
AcceptedGenerics == {<<>>, <<"lifetime">>}
RejectedGenerics ==
    {<<"lifetime", "lifetime">>, <<"type">>, <<"lifetime", "type">>, <<"const">>}

DeriveInput(generics, data) == [ident |-> "S", generics |-> generics, data |-> data]

\* Structs of up to MaxFields fields with the generics the derive accepts, and
\* structs of at most one field, enums and unions with every kind of generics.
DeriveInputs ==
    {DeriveInput(g, [k |-> "struct", fields |-> f]) :
        g \in AcceptedGenerics, f \in FieldsUpTo(MaxFields)}
    \cup {DeriveInput(g, [k |-> "struct", fields |-> f]) :
        g \in RejectedGenerics, f \in FieldsUpTo(1)}
    \cup {DeriveInput(g, [k |-> d]) :
        g \in AcceptedGenerics \cup RejectedGenerics, d \in {"enum", "union"}}

SelfInputs ==
    {in \in DeriveInputs : in.data.k = "struct" => Len(in.data.fields.list) <= 1}

\* syn::ItemTrait: the supertraits and the names of the default methods.
TraitInputs ==
    {[k |-> "trait", ident |-> "Tr", generics |-> g, supertraits |-> b, items |-> m] :
        g \in {<<>>, <<"type">>},
        b \in SeqsUpTo({"B1", "B2"}, MaxSupertraits), m \in {<<>>, <<"m">>}}

----------------------------------------------------------------------------
(* The proc macros: one expansion of one of them *)

Init ==
    /\ gen \in {"ComponentProvider", "SelfComponentProvider", "default_trait_impl"}
    /\ input \in CASE gen = "ComponentProvider" -> DeriveInputs
                   [] gen = "SelfComponentProvider" -> SelfInputs
                   [] OTHER -> TraitInputs
    /\ pc = "call"
    /\ stream_refs = <<>>
    /\ stream_muts = <<>>
    /\ stream_option_refs = <<>>
    /\ result = None
    /\ output = <<>>
    /\ inv = <<>>
    /\ depth = 0
    /\ gensyms = 0
    /\ unit = <<>>

\* `let stream = f(input.clone())?;`: keeps the stream and goes on, or
\* returns the error to the caller.
Try(r, next) ==
    IF r.ok
    THEN /\ pc' = next
         /\ UNCHANGED result
    ELSE /\ pc' = "return"
         /\ result' = r

DeriveRefs ==
    /\ gen = "ComponentProvider" /\ pc = "call"
    /\ LET r == derive_refs(input)
       IN  /\ Try(r, "derive_muts")
           /\ stream_refs' = IF r.ok THEN r.ts ELSE stream_refs
    /\ UNCHANGED <<unit, gen, input, stream_muts, stream_option_refs, output, inv, depth, gensyms>>

DeriveMuts ==
    /\ gen = "ComponentProvider" /\ pc = "derive_muts"
    /\ LET r == derive_muts(input)
       IN  /\ Try(r, "derive_option_refs")
           /\ stream_muts' = IF r.ok THEN r.ts ELSE stream_muts
    /\ UNCHANGED <<unit, gen, input, stream_refs, stream_option_refs, output, inv, depth, gensyms>>

DeriveOptionRefs ==
    /\ gen = "ComponentProvider" /\ pc = "derive_option_refs"
    /\ LET r == derive_option_refs(input)
       IN  /\ Try(r, "derive_option_muts")
           /\ stream_option_refs' = IF r.ok THEN r.ts ELSE stream_option_refs
    /\ UNCHANGED <<unit, gen, input, stream_refs, stream_muts, output, inv, depth, gensyms>>

\* The last call and the chain of the four streams.
DeriveOptionMuts ==
    /\ gen = "ComponentProvider" /\ pc = "derive_option_muts"
    /\ LET r == derive_option_muts(input)
       IN  result' = IF r.ok
                     THEN Ok(stream_refs \o stream_muts \o stream_option_refs \o r.ts)
                     ELSE r
    /\ pc' = "return"
    /\ UNCHANGED <<unit, gen, input, stream_refs, stream_muts, stream_option_refs, output,
                   inv, depth, gensyms>>

query_component_provider_derive ==
    /\ gen = "ComponentProvider" /\ pc = "return"
    /\ output' = Emit(result)
    /\ pc' = "done"
    /\ UNCHANGED <<unit, gen, input, stream_refs, stream_muts, stream_option_refs, result,
                   inv, depth, gensyms>>

self_component_provider_derive ==
    /\ gen = "SelfComponentProvider" /\ pc = "call"
    /\ result' = self_derive(input)
    /\ output' = Emit(result')
    /\ pc' = "done"
    /\ UNCHANGED <<unit, gen, input, stream_refs, stream_muts, stream_option_refs,
                   inv, depth, gensyms>>

default_trait_impl ==
    /\ gen = "default_trait_impl" /\ pc = "call"
    /\ result' = generate(input)
    /\ output' = Emit(result')
    /\ pc' = "done"
    /\ UNCHANGED <<unit, gen, input, stream_refs, stream_muts, stream_option_refs,
                   inv, depth, gensyms>>

Next ==
    \/ DeriveRefs
    \/ DeriveMuts
    \/ DeriveOptionRefs
    \/ DeriveOptionMuts
    \/ query_component_provider_derive
    \/ self_component_provider_derive
    \/ default_trait_impl

Spec == Init /\ [][Next]_vars

----------------------------------------------------------------------------
(* src/lib.rs: gen_tuple_query_component_providers, a macro_rules tt       *)
(* muncher.  An invocation is the sequence of token trees between the      *)
(* macro's parentheses; rules are tried in the order they are written.     *)

Ident(s) == [k |-> "ident", s |-> s]
Punct(s) == [k |-> "punct", s |-> s]
Lifetime(s) == [k |-> "lifetime", s |-> s]
Group(d, b) == [k |-> "group", d |-> d, b |-> b]
Paren(b) == Group("(", b)

Comma == Punct(",")
At == Punct("@")
Amp == Punct("&")
AmpAmp == Punct("&&")
TickA == Lifetime("'a")
ParenMarker == Ident("__paren")

IsIdent(t) == t.k = "ident"
IsParen(t) == t.k = "group" /\ t.d = "("
From(s, n) == SubSeq(s, n, Len(s))

\* `$alias:ident, @( ... ) ...`
Munching(s) ==
    Len(s) >= 4 /\ IsIdent(s[1]) /\ s[2] = Comma /\ s[3] = At /\ IsParen(s[4])
\* `$alias:ident, @(($($top:tt)*) $($stack:tt)*) ...`
HasTop(s) == Munching(s) /\ Len(s[4].b) >= 1 /\ IsParen(s[4].b[1])

OpenMatches(s) == Munching(s) /\ Len(s) >= 5 /\ IsParen(s[5])
CloseMatches(s) ==
    /\ HasTop(s) /\ Len(s[4].b) >= 2 /\ IsParen(s[4].b[2])
    /\ Len(s) >= 5 /\ s[5] = ParenMarker
AmpMatches(s) == HasTop(s) /\ Len(s) >= 5 /\ s[5] = Amp
AmpAmpMatches(s) == HasTop(s) /\ Len(s) >= 5 /\ s[5] = AmpAmp
MunchMatches(s) == HasTop(s) /\ Len(s) >= 5
\* Variant: the tuple collected on the stack must have an element.
DoneMatchesNonEmptyTuple(s) ==
    /\ HasTop(s) /\ Len(s) = 4 /\ Len(s[4].b) = 1 /\ Len(s[4].b[1].b) >= 1
    /\ \A n \in DOMAIN s[4].b[1].b :
        IsParen(s[4].b[1].b[n]) => Len(s[4].b[1].b[n].b) >= 1

DoneMatches(s) ==
    HasTop(s) /\ Len(s) = 4 /\ Len(s[4].b) = 1 /\ Len(s[4].b[1].b) >= 1
ImplMatches(s) ==
    /\ Len(s) = 6 /\ IsIdent(s[1]) /\ s[2] = Comma /\ s[3] = Ident("impl")
    /\ IsIdent(s[4]) /\ s[5] = Comma /\ IsParen(s[6])
BeginMatches(s) == Len(s) >= 3 /\ IsIdent(s[1]) /\ s[2] = Comma

\* The rule an invocation expands by: the first whose matcher accepts it.
Selected(s) ==
    IF OpenMatches(s) THEN "open"
    ELSE IF CloseMatches(s) THEN "close"
    ELSE IF AmpMatches(s) THEN "amp"
    ELSE IF AmpAmpMatches(s) THEN "ampamp"
    ELSE IF MunchMatches(s) THEN "munch"
    ELSE IF DoneMatches(s) THEN "done"
    ELSE IF ImplMatches(s) THEN "impl"
    ELSE IF BeginMatches(s) THEN "begin"
    ELSE "none"

\* The transcribers: the invocation a rule expands to.
Restack(s, top, stack, rest) ==
    <<s[1], Comma, At, Paren(<<Paren(top)>> \o stack)>> \o rest

OpenExpansion(s) ==
    Restack(s, <<>>, s[4].b, s[5].b \o <<ParenMarker>> \o From(s, 6))
\* Variant: the closed group is put before the tokens of the group below it.
CloseExpansionInFront(s) ==
    Restack(s, <<Paren(s[4].b[1].b)>> \o s[4].b[2].b, From(s[4].b, 3), From(s, 6))

CloseExpansion(s) ==
    Restack(s, s[4].b[2].b \o <<Paren(s[4].b[1].b)>>, From(s[4].b, 3), From(s, 6))
AmpExpansion(s) ==
    Restack(s, s[4].b[1].b \o <<Amp, TickA>>, From(s[4].b, 2), From(s, 6))
\* Variant: only the first of the two references gets the lifetime.
AmpAmpExpansionOnce(s) ==
    Restack(s, s[4].b[1].b \o <<Amp, TickA, Amp>>, From(s[4].b, 2), From(s, 6))

AmpAmpExpansion(s) ==
    Restack(s, s[4].b[1].b \o <<Amp, TickA, Amp, TickA>>, From(s[4].b, 2), From(s, 6))

\* Variant: the munch rule leaves the token it has copied in the input.
MunchExpansionKeepsToken(s) ==
    Restack(s, s[4].b[1].b \o <<s[5]>>, From(s[4].b, 2), From(s, 5))

MunchExpansion(s) ==
    Restack(s, s[4].b[1].b \o <<s[5]>>, From(s[4].b, 2), From(s, 6))
\* The argument of gensym!: `gen_tuple_query_component_providers!(impl $alias, $($top)+)`
DoneExpansion(s) == <<Ident("impl"), s[1], Comma>> \o s[4].b[1].b
BeginExpansion(s) == <<s[1], Comma, At, Paren(<<Paren(<<>>)>>)>> \o From(s, 3)
\* Variant: the struct takes its name from the alias.
ImplExpansionNamedByAlias(s) ==
    <<[k |-> "struct", derive |-> <<"::hecs::Query", "$crate::ComponentProvider">>,
       ident |-> s[4], generics |-> <<"lifetime">>, fields |-> s[6].b],
      [k |-> "type", ident |-> s[4], generics |-> <<"lifetime">>, target |-> s[4]]>>

\* `#[derive(::hecs::Query, $crate::ComponentProvider)] struct $gensym<'a>($($tt)*);`
\* `type $alias<'a> = $gensym<'a>;`
ImplExpansion(s) ==
    <<[k |-> "struct", derive |-> <<"::hecs::Query", "$crate::ComponentProvider">>,
       ident |-> s[1], generics |-> <<"lifetime">>, fields |-> s[6].b],
      [k |-> "type", ident |-> s[4], generics |-> <<"lifetime">>, target |-> s[1]]>>

\* gensym! puts a fresh identifier and a comma before the arguments.
GensymIdent(n) == [k |-> "ident", s |-> "__gensym", n |-> n]
GensymExpansion(s, n) == <<GensymIdent(n), Comma>> \o s

----------------------------------------------------------------------------
(* Inputs of the tuple macro *)

TypeName == Ident("T")

\* (&mut i32, Option<&bool>, Option<&mut MyComponent>, &&str)
TestTuple ==
    <<Amp, Ident("mut"), Ident("i32"), Comma,
      Ident("Option"), Punct("<"), Amp, Ident("bool"), Punct(">"), Comma,
      Ident("Option"), Punct("<"), Amp, Ident("mut"), Ident("MyComponent"), Punct(">"),
      Comma, AmpAmp, Ident("str")>>

LeafBodies ==
    { <<>>,
      <<Amp, TypeName>>,
      <<AmpAmp, TypeName>>,
      <<Amp, Group("[", <<Amp, TypeName>>), Group("{", <<AmpAmp, TypeName>>)>> }

\* Token sequences with parenthesized groups nested up to d deep, with and
\* without tokens before and after the inner group.
RECURSIVE Bodies(_)
Bodies(d) ==
    IF d = 0 THEN LeafBodies
    ELSE LeafBodies \cup
         {pre \o <<Paren(b)>> \o post :
            pre \in {<<>>, <<Amp>>}, post \in {<<>>, <<Comma, TypeName>>},
            b \in Bodies(d - 1)}

\* What follows `$alias,` in an invocation: one tuple; nothing; a tuple and
\* more; no tuple; tuples that hold the identifier the macro marks the end of
\* a group with.
TupleArguments ==
    {<<Paren(b)>> : b \in Bodies(MaxNesting)}
    \cup { <<>>,
           <<Paren(<<Amp, TypeName>>), TypeName>>,
           <<Amp, TypeName>>,
           <<Paren(TestTuple)>>,
           <<Paren(<<Paren(<<Amp, TypeName, ParenMarker>>), TypeName>>)>>,
           <<Paren(<<Paren(<<Amp, TypeName, ParenMarker, Paren(<<>>)>>)>>)>> }

TupleInvocations == {<<Ident("Q"), Comma>> \o a : a \in TupleArguments}

----------------------------------------------------------------------------
(* One expansion of gen_tuple_query_component_providers! *)

InitTuple ==
    /\ gen = "gen_tuple_query_component_providers"
    /\ input \in TupleInvocations
    /\ inv = input
    /\ pc = "expand"
    /\ depth = 0
    /\ gensyms = 0
    /\ unit = <<>>
    /\ stream_refs = <<>>
    /\ stream_muts = <<>>
    /\ stream_option_refs = <<>>
    /\ result = None
    /\ output = <<>>

\* A rule whose expansion is another invocation of the macro.
Recurse(rule, expansion) ==
    /\ pc = "expand" /\ Selected(inv) = rule
    /\ depth < RecursionLimit
    /\ inv' = expansion
    /\ depth' = depth + 1
    /\ UNCHANGED <<unit, gen, input, pc, stream_refs, stream_muts, stream_option_refs,
                   result, output, gensyms>>

OpenParenthesis == Recurse("open", OpenExpansion(inv))
CloseParenthesis == Recurse("close", CloseExpansion(inv))
ReplaceAmp == Recurse("amp", AmpExpansion(inv))
ReplaceAmpAmp == Recurse("ampamp", AmpAmpExpansion(inv))
MunchToken == Recurse("munch", MunchExpansion(inv))
Begin == Recurse("begin", BeginExpansion(inv))

Done ==
    /\ pc = "expand" /\ Selected(inv) = "done"
    /\ depth < RecursionLimit
    /\ inv' = DoneExpansion(inv)
    /\ pc' = "gensym"
    /\ depth' = depth + 1
    /\ UNCHANGED <<unit, gen, input, stream_refs, stream_muts, stream_option_refs,
                   result, output, gensyms>>

Gensym ==
    /\ pc = "gensym"
    /\ depth < RecursionLimit
    /\ gensyms' = gensyms + 1
    /\ inv' = GensymExpansion(inv, gensyms')
    /\ pc' = "expand"
    /\ depth' = depth + 1
    /\ UNCHANGED <<unit, gen, input, stream_refs, stream_muts, stream_option_refs,
                   result, output>>

EmitStruct ==
    /\ pc = "expand" /\ Selected(inv) = "impl"
    /\ output' = ImplExpansion(inv)
    /\ pc' = "done"
    /\ UNCHANGED <<unit, gen, input, inv, depth, stream_refs, stream_muts,
                   stream_option_refs, result, gensyms>>

\* No rule accepts the invocation: the compiler reports it, nothing is emitted.
NoRuleMatches ==
    /\ pc = "expand" /\ Selected(inv) = "none"
    /\ output' = <<[k |-> "compile_error", span |-> "invocation",
                    msg |-> "no rules expected this token / unexpected end of macro invocation"]>>
    /\ pc' = "error"
    /\ UNCHANGED <<unit, gen, input, inv, depth, stream_refs, stream_muts,
                   stream_option_refs, result, gensyms>>

RecursionLimitReached ==
    /\ \/ pc = "expand" /\ Selected(inv) \notin {"impl", "none"}
       \/ pc = "gensym"
    /\ depth >= RecursionLimit
    /\ output' = <<[k |-> "compile_error", span |-> "invocation",
                    msg |-> "recursion limit reached while expanding"]>>
    /\ pc' = "error"
    /\ UNCHANGED <<unit, gen, input, inv, depth, stream_refs, stream_muts,
                   stream_option_refs, result, gensyms>>

NextTuple ==
    \/ Begin
    \/ OpenParenthesis
    \/ CloseParenthesis
    \/ ReplaceAmp
    \/ ReplaceAmpAmp
    \/ MunchToken
    \/ Done
    \/ Gensym
    \/ EmitStruct
    \/ NoRuleMatches
    \/ RecursionLimitReached

SpecTuple == InitTuple /\ [][NextTuple]_vars

----------------------------------------------------------------------------
(* Properties of the proc macros.  The classification of a field type is     *)
(* restated here on the input itself, not through the helpers above.         *)

IsDerive == gen = "ComponentProvider"
IsStruct == input.data.k = "struct"
IsQuery == IsDerive /\ IsStruct /\ input.generics = <<"lifetime">>
IsBundle == IsDerive /\ IsStruct /\ input.generics = <<>>
Finished == pc = "done"

NFields == Len(input.data.fields.list)
FieldTy(i) == input.data.fields.list[i].ty
FieldMember(i) ==
    IF input.data.fields.k = "named"
    THEN [k |-> "named", ident |-> FieldNames[i]]
    ELSE [k |-> "unnamed", index |-> i - 1]

IsReference(t) == t.k = "ref"
IsMutReference(t) == t.k = "ref" /\ t.mutability
\* Option<&T> or Option<&mut T>, written with the bare name Option.
IsOptionReference(t) ==
    /\ t.k = "path"
    /\ Len(t.segments) = 1
    /\ t.segments[1].ident = "Option"
    /\ Len(t.segments[1].args) = 1
    /\ IsReference(t.segments[1].args[1])
Wrapped(t) == t.segments[1].args[1]

IsError(item) == item.k = "compile_error"
Errors == SelectSeq(output, IsError)
IsImplOf(item, trait) == item.k = "impl" /\ item.trait = trait
ImplsOf(trait) == SelectSeq(output, LAMBDA item : IsImplOf(item, trait))

\* An implementation of trait<T> whose method reads field i.
Emits(trait, i, T) ==
    \E n \in DOMAIN output :
        /\ IsImplOf(output[n], trait)
        /\ output[n].member = FieldMember(i)
        /\ output[n].component = T
EmitsFor(trait, i) ==
    \E n \in DOMAIN output :
        IsImplOf(output[n], trait) /\ output[n].member = FieldMember(i)

\* C1: for a Query struct, get is emitted for every field that is a reference
\* to T (mutable or not), with component T; get_mut is emitted only for a
\* field that is itself a mutable reference, so never for `& &mut T`.
C1_GetAndGetMutOfQuery ==
    (Finished /\ IsQuery) =>
        \A i \in 1..NFields :
            /\ IsReference(FieldTy(i)) =>
                    Emits("ComponentProvider", i, FieldTy(i).elem)
            /\ EmitsFor("ComponentProviderMut", i) =>
                    /\ IsMutReference(FieldTy(i))
                    /\ Emits("ComponentProviderMut", i, FieldTy(i).elem)

\* A Query struct with a field `& &mut T` has been expanded: get is there for
\* the field, get_mut is not.
C1_Witness ==
    /\ Finished /\ IsQuery
    /\ \E i \in 1..NFields :
        /\ IsReference(FieldTy(i)) /\ ~FieldTy(i).mutability
        /\ IsMutReference(FieldTy(i).elem)
        /\ Emits("ComponentProvider", i, FieldTy(i).elem)
        /\ ~EmitsFor("ComponentProviderMut", i)

\* C2: for a Query struct and a field Option<&T> or Option<&mut T>,
\* get_optional for T is emitted, and get_optional_mut for T is emitted iff
\* the wrapped reference is mutable.
C2_OptionalOfQuery ==
    (Finished /\ IsQuery) =>
        \A i \in 1..NFields :
            IsOptionReference(FieldTy(i)) =>
                /\ Emits("ComponentProviderOptional", i, Wrapped(FieldTy(i)).elem)
                /\ Emits("ComponentProviderOptionalMut", i, Wrapped(FieldTy(i)).elem)
                        <=> Wrapped(FieldTy(i)).mutability
                /\ EmitsFor("ComponentProviderOptionalMut", i)
                        <=> Wrapped(FieldTy(i)).mutability

\* A Query struct with an Option<&T> field and an Option<&mut T> field has
\* been expanded, the first without and the second with get_optional_mut.
C2_Witness ==
    /\ Finished /\ IsQuery
    /\ \E i, j \in 1..NFields :
        /\ IsOptionReference(FieldTy(i)) /\ ~Wrapped(FieldTy(i)).mutability
        /\ IsOptionReference(FieldTy(j)) /\ Wrapped(FieldTy(j)).mutability
        /\ ~EmitsFor("ComponentProviderOptionalMut", i)
        /\ EmitsFor("ComponentProviderOptionalMut", j)

\* C3: for a Bundle struct of n fields the output is n get implementations
\* followed by n get_mut implementations, the i-th of each for field i and
\* its declared type, and nothing else (no get_optional, no get_optional_mut).
C3_BundlePairs ==
    (Finished /\ IsBundle) =>
        /\ Len(output) = 2 * NFields
        /\ \A i \in 1..NFields :
            /\ IsImplOf(output[i], "ComponentProvider")
            /\ output[i].component = FieldTy(i)
            /\ output[i].member = FieldMember(i)
            /\ output[i].ret = TypeReference(NoLifetime, FALSE, FieldTy(i))
            /\ IsImplOf(output[NFields + i], "ComponentProviderMut")
            /\ output[NFields + i].component = FieldTy(i)
            /\ output[NFields + i].member = FieldMember(i)
            /\ output[NFields + i].ret = TypeReference(NoLifetime, TRUE, FieldTy(i))

\* A Bundle struct of two fields, one of them shaped Option<&mut T>, has been
\* expanded into four implementations.
C3_Witness ==
    /\ Finished /\ IsBundle
    /\ NFields = 2
    /\ \E i \in 1..NFields : IsOptionReference(FieldTy(i))
    /\ Len(output) = 4

\* C4: the derive fails iff the input is not a struct, has more than one
\* lifetime parameter or has a parameter that is not a lifetime. Otherwise
\* it succeeds, as a Bundle (impl without lifetime) for no lifetime and as a
\* Query (impl<'a>) for one; fields of other shapes get no accessor and take
\* none away from the other fields.
C4_Lifetimes == SelectSeq(input.generics, LAMBDA p : p = "lifetime")
C4_Rejected ==
    \/ ~IsStruct
    \/ Len(C4_Lifetimes) > 1
    \/ \E n \in DOMAIN input.generics : input.generics[n] # "lifetime"
C4_FailsIffShapeRejected ==
    (Finished /\ IsDerive) =>
        /\ Len(Errors) > 0 <=> C4_Rejected
        /\ ~C4_Rejected =>
            /\ \A n \in DOMAIN output :
                /\ output[n].k = "impl"
                /\ output[n].lifetime = (Len(C4_Lifetimes) = 1)
            /\ Len(C4_Lifetimes) = 0 => Len(output) = 2 * NFields
            /\ Len(C4_Lifetimes) = 1 =>
                \A i \in 1..NFields :
                    /\ EmitsFor("ComponentProvider", i) <=> IsReference(FieldTy(i))
                    /\ IsOptionReference(FieldTy(i))
                            => EmitsFor("ComponentProviderOptional", i)

\* A Query struct with an owned field and a reference field has been expanded
\* without an error: the owned field has no accessor, the reference has get.
C4_Witness ==
    /\ Finished /\ IsQuery
    /\ Len(Errors) = 0
    /\ \E i, j \in 1..NFields :
        /\ ~IsReference(FieldTy(i)) /\ ~IsOptionReference(FieldTy(i))
        /\ \A n \in DOMAIN output : output[n].member # FieldMember(i)
        /\ IsReference(FieldTy(j))
        /\ EmitsFor("ComponentProvider", j)

\* C5: SelfComponentProvider rejects every input with a lifetime parameter or
\* a type parameter; for an accepted struct X the output is exactly get and
\* get_mut for component X on X, both returning self, whatever X's fields.
C5_SelfTy == TypePath(<<PathSegment(input.ident, <<>>)>>)
C5_SelfAccessor ==
    (Finished /\ gen = "SelfComponentProvider") =>
        /\ Len(input.generics) > 0 =>
                Len(output) = 1 /\ IsError(output[1])
        /\ Len(Errors) = 0 =>
            /\ IsStruct /\ input.generics = <<>>
            /\ Len(output) = 2
            /\ IsImplOf(output[1], "ComponentProvider")
            /\ IsImplOf(output[2], "ComponentProviderMut")
            /\ \A n \in 1..2 :
                /\ output[n].component = C5_SelfTy
                /\ output[n].self_ty = input.ident
                /\ output[n].ret.elem = C5_SelfTy
                /\ output[n].expr = "self"
                /\ output[n].member = None
            /\ ~output[1].ret.mutability /\ output[2].ret.mutability

\* A struct with exactly one lifetime parameter, which ComponentProvider
\* accepts, has been rejected by SelfComponentProvider.
C5_Witness ==
    /\ Finished /\ gen = "SelfComponentProvider"
    /\ IsStruct /\ input.generics = <<"lifetime">>
    /\ Len(output) = 1 /\ IsError(output[1])

\* C6: default_trait_impl never fails: the output is the trait declaration as
\* given, followed by one blanket impl of the trait for every T bounded by
\* the trait's supertraits, with no items; also for no supertraits at all.
C6_BlanketImpl ==
    (Finished /\ gen = "default_trait_impl") =>
        /\ Len(output) = 2
        /\ output[1] = input
        /\ output[2].k = "blanket_impl"
        /\ output[2].trait = input.ident
        /\ output[2].generics = <<output[2].self_ty>>
        /\ output[2].bounds = input.supertraits
        /\ output[2].items = <<>>

\* A trait without supertraits has been expanded into its blanket impl.
C6_Witness ==
    /\ Finished /\ gen = "default_trait_impl"
    /\ input.supertraits = <<>>
    /\ Len(output) = 2
    /\ output[2].k = "blanket_impl" /\ output[2].bounds = <<>>

\* C9: an expansion hands back nothing before it ends, and at its end either
\* all its declarations and no diagnostic, or one diagnostic and nothing
\* else; the four families of ComponentProvider are never split between them.
C9_Expected ==
    CASE gen = "ComponentProvider" /\ input.generics = <<>> -> 2 * NFields
      [] gen = "ComponentProvider" /\ input.generics # <<>> ->
            Cardinality({i \in 1..NFields : IsReference(FieldTy(i))})
          + Cardinality({i \in 1..NFields : IsMutReference(FieldTy(i))})
          + Cardinality({i \in 1..NFields : IsOptionReference(FieldTy(i))})
          + Cardinality({i \in 1..NFields :
                IsOptionReference(FieldTy(i)) /\ Wrapped(FieldTy(i)).mutability})
      [] OTHER -> 2
C9_Ended == pc \in {"done", "error"}
C9_Atomic ==
    /\ ~C9_Ended => output = <<>>
    /\ C9_Ended =>
        \/ Len(Errors) = 0 /\ Len(output) = C9_Expected
        \/ Len(output) = 1 /\ IsError(output[1])

\* ComponentProvider has ended on a struct with a reference field and two
\* lifetime parameters: one diagnostic, no implementation.
C9_Witness ==
    /\ Finished /\ IsDerive /\ IsStruct
    /\ Len(input.generics) = 2
    /\ NFields = 1 /\ IsReference(FieldTy(1))
    /\ Len(output) = 1 /\ IsError(output[1])

\* The capabilities, and which of them field i of an accepted struct gives,
\* for which component type.
Capabilities ==
    {"ComponentProvider", "ComponentProviderMut",
     "ComponentProviderOptional", "ComponentProviderOptionalMut"}
Accepted == Finished /\ (IsQuery \/ IsBundle)
Provides(trait, i) ==
    IF IsBundle THEN trait \in {"ComponentProvider", "ComponentProviderMut"}
    ELSE CASE trait = "ComponentProvider" -> IsReference(FieldTy(i))
           [] trait = "ComponentProviderMut" -> IsMutReference(FieldTy(i))
           [] trait = "ComponentProviderOptional" -> IsOptionReference(FieldTy(i))
           [] OTHER -> IsOptionReference(FieldTy(i)) /\ Wrapped(FieldTy(i)).mutability
ComponentFor(trait, i) ==
    IF IsBundle THEN FieldTy(i)
    ELSE IF trait \in {"ComponentProvider", "ComponentProviderMut"}
    THEN FieldTy(i).elem
    ELSE Wrapped(FieldTy(i)).elem
ImplsFor(trait, T) ==
    {n \in DOMAIN output : IsImplOf(output[n], trait) /\ output[n].component = T}
FieldsFor(trait, T) ==
    {i \in 1..NFields : Provides(trait, i) /\ ComponentFor(trait, i) = T}

\* C13 as stated: the output of an accepted struct never holds two
\* implementations of the same capability for the same component type.
C13_OncePerComponentType ==
    Accepted =>
        \A m, n \in DOMAIN output :
            (IsImplOf(output[m], output[n].trait)
                /\ output[m].component = output[n].component) => m = n

\* C13, amended: a capability is emitted once per field that gives it, each
\* implementation reading its own field; the output holds as many
\* implementations of a capability for a component type as there are such
\* fields of that component type, so one exactly when no other field shares
\* it, and two when two fields do.
C13_OncePerField ==
    Accepted =>
        /\ \A n \in DOMAIN output :
            /\ Cardinality(ImplsFor(output[n].trait, output[n].component))
                 = Cardinality(FieldsFor(output[n].trait, output[n].component))
            /\ \A m \in DOMAIN output :
                (IsImplOf(output[m], output[n].trait)
                    /\ output[m].member = output[n].member) => m = n
        /\ \A i \in 1..NFields : \A trait \in Capabilities :
            Provides(trait, i) =>
                /\ Emits(trait, i, ComponentFor(trait, i))
                /\ Cardinality(ImplsFor(trait, ComponentFor(trait, i)))
                     = Cardinality(FieldsFor(trait, ComponentFor(trait, i)))

\* A Query struct with a `&T` field and a `&mut T` field has been expanded:
\* get for T is there twice, once for each field, get_mut for T once.
C13_Witness ==
    /\ Accepted /\ IsQuery /\ NFields = 2
    /\ IsReference(FieldTy(1)) /\ ~FieldTy(1).mutability
    /\ IsMutReference(FieldTy(2))
    /\ FieldTy(1).elem = FieldTy(2).elem
    /\ Cardinality(ImplsFor("ComponentProvider", FieldTy(1).elem)) = 2
    /\ Cardinality(ImplsFor("ComponentProviderMut", FieldTy(1).elem)) = 1

\* The field an implementation reads, and the reference a Query field gives:
\* the field's type itself, or what its Option wraps.
FieldOf(item) == CHOOSE i \in 1..NFields : FieldMember(i) = item.member
IsOptional(item) ==
    item.trait \in {"ComponentProviderOptional", "ComponentProviderOptionalMut"}
IsMutable(item) ==
    item.trait \in {"ComponentProviderMut", "ComponentProviderOptionalMut"}
GivenReference(item) ==
    IF IsOptional(item) THEN Wrapped(FieldTy(FieldOf(item))) ELSE FieldTy(FieldOf(item))

\* A type with the lifetime of every reference in it taken away, at every
\* level, and with every reference made immutable if asked to.
RECURSIVE StripEveryLevel(_, _)
StripEveryLevel(ty, immutable) ==
    IF ty.k = "ref"
    THEN TypeReference(NoLifetime, IF immutable THEN FALSE ELSE ty.mutability,
                       StripEveryLevel(ty.elem, immutable))
    ELSE TypePath([i \in DOMAIN ty.segments |->
            PathSegment(ty.segments[i].ident,
                [j \in DOMAIN ty.segments[i].args |->
                    StripEveryLevel(ty.segments[i].args[j], immutable)])])

RECURSIVE HasLifetime(_)
HasLifetime(ty) ==
    IF ty.k = "ref"
    THEN ty.lifetime # NoLifetime \/ HasLifetime(ty.elem)
    ELSE \E i \in DOMAIN ty.segments : \E j \in DOMAIN ty.segments[i].args :
            HasLifetime(ty.segments[i].args[j])

\* C14 as stated: the return type of every accessor of a Query struct is the
\* field's type with the lifetime of every reference stripped at every
\* level, for get and get_optional with every reference immutable as well,
\* and so holds no lifetime.
C14_StrippedAtEveryLevel ==
    (Finished /\ IsQuery) =>
        \A n \in DOMAIN output :
            output[n].k = "impl" =>
                /\ output[n].ret =
                     StripEveryLevel(FieldTy(FieldOf(output[n])), ~IsMutable(output[n]))
                /\ ~HasLifetime(output[n].ret)

\* C14, amended: the return type of every accessor of a Query struct is the
\* field's type with the lifetime stripped from its outermost reference (the
\* field's type itself, or the reference its Option wraps), and for get and
\* get_optional with that reference made immutable; what the reference points
\* to is kept as written, so the return type is `&T`, `&mut T`, `Option<&T>`
\* or `Option<&mut T>` for the component type T of the implementation, and
\* for a reference-to-reference field T keeps its lifetime and mutability.
C14_StrippedAtOutermostReference ==
    (Finished /\ IsQuery) =>
        \A n \in DOMAIN output :
            output[n].k = "impl" =>
                LET given == GivenReference(output[n])
                    ref == TypeReference(NoLifetime, IsMutable(output[n]), given.elem)
                IN  /\ output[n].component = given.elem
                    /\ IsMutable(output[n]) => given.mutability
                    /\ output[n].ret =
                         IF IsOptional(output[n]) THEN Generic("Option", ref) ELSE ref

\* A Query struct with a field `&'a &'a mut T` has been expanded: get returns
\* `& &'a mut T`.
C14_Witness ==
    /\ Finished /\ IsQuery
    /\ \E n \in DOMAIN output :
        /\ IsImplOf(output[n], "ComponentProvider")
        /\ LET ty == FieldTy(FieldOf(output[n]))
           IN  /\ IsReference(ty) /\ ty.lifetime = "'a"
               /\ IsMutReference(ty.elem) /\ ty.elem.lifetime = "'a"
               /\ output[n].ret = TypeReference(NoLifetime, FALSE, ty.elem)
               /\ HasLifetime(output[n].ret)

\* The capability a capability has as its supertrait.
Supertrait(trait) ==
    IF trait = "ComponentProviderMut" THEN "ComponentProvider"
    ELSE "ComponentProviderOptional"

\* C15: whenever the output of the derive holds get_mut for a struct and a
\* component type it holds get for them, and whenever it holds
\* get_optional_mut it holds get_optional, for the same field and with the
\* same generics on the impl.
C15_SupertraitClosure ==
    IsDerive =>
        \A n \in DOMAIN output :
            (output[n].k = "impl" /\ IsMutable(output[n])) =>
                \E m \in DOMAIN output :
                    /\ IsImplOf(output[m], Supertrait(output[n].trait))
                    /\ output[m].component = output[n].component
                    /\ output[m].self_ty = output[n].self_ty
                    /\ output[m].lifetime = output[n].lifetime
                    /\ output[m].member = output[n].member

\* A Query struct with a `&mut T` field and an Option<&mut T> field has been
\* expanded: get_mut and get are there for the first, get_optional_mut and
\* get_optional for the second.
C15_Witness ==
    /\ Accepted /\ IsQuery /\ NFields = 2
    /\ IsMutReference(FieldTy(1))
    /\ IsOptionReference(FieldTy(2)) /\ Wrapped(FieldTy(2)).mutability
    /\ Emits("ComponentProviderMut", 1, FieldTy(1).elem)
    /\ Emits("ComponentProvider", 1, FieldTy(1).elem)
    /\ Emits("ComponentProviderOptionalMut", 2, Wrapped(FieldTy(2)).elem)
    /\ Emits("ComponentProviderOptional", 2, Wrapped(FieldTy(2)).elem)

\* The same for a Bundle struct: get_mut and get for each field.
C15_BundleCase ==
    /\ Accepted /\ IsBundle /\ NFields = 2
    /\ Emits("ComponentProviderMut", 2, FieldTy(2))
    /\ Emits("ComponentProvider", 2, FieldTy(2))

----------------------------------------------------------------------------
(* Properties of the tuple macro.  The rewrite is restated as a function   *)
(* of the input token trees, the macro computes it with its stack.         *)

IsOneTuple == Len(input) = 3 /\ IsParen(input[3])
TupleBody == input[3].b
Emitted == gen = "gen_tuple_query_component_providers" /\ pc = "done"

\* The rewrite applied to every token, inside every kind of group.
RECURSIVE RewriteEverywhere(_)
RewriteEverywhere(s) ==
    IF Len(s) = 0 THEN <<>>
    ELSE LET t == Head(s)
             first == IF t = Amp THEN <<Amp, TickA>>
                      ELSE IF t = AmpAmp THEN <<Amp, TickA, Amp, TickA>>
                      ELSE IF t.k = "group" THEN <<Group(t.d, RewriteEverywhere(t.b))>>
                      ELSE <<t>>
         IN  first \o RewriteEverywhere(Tail(s))

\* The rewrite applied at the top level and inside parenthesized groups;
\* a bracketed or braced group is one token, kept as it is.
RECURSIVE RewriteInParens(_)
RewriteInParens(s) ==
    IF Len(s) = 0 THEN <<>>
    ELSE LET t == Head(s)
             first == IF t = Amp THEN <<Amp, TickA>>
                      ELSE IF t = AmpAmp THEN <<Amp, TickA, Amp, TickA>>
                      ELSE IF IsParen(t) THEN <<Paren(RewriteInParens(t.b))>>
                      ELSE <<t>>
         IN  first \o RewriteInParens(Tail(s))

\* The 'a after every & taken out again, at the levels the rewrite reaches.
RECURSIVE EraseMarkers(_)
EraseMarkers(s) ==
    IF Len(s) = 0 THEN <<>>
    ELSE LET t == Head(s)
         IN  IF t = Amp /\ Len(s) >= 2 /\ s[2] = TickA
             THEN <<Amp>> \o EraseMarkers(From(s, 3))
             ELSE IF IsParen(t)
             THEN <<Paren(EraseMarkers(t.b))>> \o EraseMarkers(Tail(s))
             ELSE <<t>> \o EraseMarkers(Tail(s))

\* Every && read as the two & it stands for, at the same levels.
RECURSIVE SplitAmpAmp(_)
SplitAmpAmp(s) ==
    IF Len(s) = 0 THEN <<>>
    ELSE LET t == Head(s)
             first == IF t = AmpAmp THEN <<Amp, Amp>>
                      ELSE IF IsParen(t) THEN <<Paren(SplitAmpAmp(t.b))>>
                      ELSE <<t>>
         IN  first \o SplitAmpAmp(Tail(s))

\* Depth of parenthesized groups in a token sequence.
RECURSIVE Nesting(_)
Nesting(s) ==
    IF Len(s) = 0 THEN 0
    ELSE LET t == Head(s)
             here == IF IsParen(t) THEN 1 + Nesting(t.b) ELSE 0
             rest == Nesting(Tail(s))
         IN  IF here > rest THEN here ELSE rest

Contains(s, t) == \E n \in DOMAIN s : s[n] = t
HasOtherGroup(s) == \E n \in DOMAIN s : s[n].k = "group" /\ ~IsParen(s[n])

\* C7 as stated: the fields of the emitted struct are the input tuple with
\* every & and && rewritten wherever it occurs, inside bracketed and braced
\* groups too.
C7_RewrittenEverywhere ==
    (Emitted /\ IsOneTuple) => output[1].fields = RewriteEverywhere(TupleBody)

\* C7, amended: the fields of the struct emitted for a tuple are the
\* tuple's tokens in their order, with every & and && at the top level or
\* inside nested parenthesized groups rewritten to &'a and &'a &'a; every
\* other token, a bracketed or braced group with the & inside it included,
\* is unchanged.
C7_RewrittenInParens ==
    (Emitted /\ IsOneTuple) =>
        /\ output[1].k = "struct"
        /\ output[1].fields = RewriteInParens(TupleBody)

\* A tuple with a nested parenthesized group, a && and a bracketed group
\* holding a & has been expanded; the bracketed group is in the struct as
\* it was written.
C7_Witness ==
    /\ Emitted
    /\ Len(TupleBody) >= 2 /\ TupleBody[1] = Amp /\ IsParen(TupleBody[2])
    /\ Contains(TupleBody[2].b, Group("[", <<Amp, TypeName>>))
    /\ Len(output[1].fields) >= 3
    /\ output[1].fields[2] = TickA /\ IsParen(output[1].fields[3])
    /\ Contains(output[1].fields[3].b, Group("[", <<Amp, TypeName>>))

\* C8 as stated: taking the inserted 'a out of the emitted fields gives back
\* exactly the input tuple, and a finished scan leaves one group on the stack.
C8_RoundTripExact ==
    /\ (Emitted /\ IsOneTuple) => EraseMarkers(output[1].fields) = TupleBody
    /\ (pc = "expand" /\ Munching(inv) /\ Len(inv) = 4) => Len(inv[4].b) = 1

\* C8, amended: taking the inserted 'a out of the emitted fields gives back
\* the input tuple with every && replaced by the two & it was rewritten
\* into: groups, their nesting and the order of the tokens are those of the
\* input; and a finished scan leaves exactly one group on the stack.
C8_RoundTripUpToSplit ==
    /\ (Emitted /\ IsOneTuple) => EraseMarkers(output[1].fields) = SplitAmpAmp(TupleBody)
    /\ (pc = "expand" /\ Munching(inv) /\ Len(inv) = 4) => Len(inv[4].b) = 1

\* A tuple nested four deep, with tokens after the inner groups and a && in
\* the innermost, has been expanded.
C8_Witness ==
    /\ Emitted
    /\ Nesting(TupleBody) = 4
    /\ Len(TupleBody) = 4 /\ TupleBody[1] = Amp
    /\ Len(TupleBody[2].b) = 3 /\ IsParen(TupleBody[2].b[1])
    /\ Nesting(output[1].fields) = 4
    /\ EraseMarkers(output[1].fields) # TupleBody

EmptyTupleInvocation == <<Ident("Q"), Comma, Paren(<<>>)>>

\* C10 as stated: for the empty tuple no struct and no alias are emitted.
C10_EmptyTupleEmitsNothing ==
    input = EmptyTupleInvocation =>
        \A n \in DOMAIN output : output[n].k \notin {"struct", "type"}

\* C10, amended: the expansion of the empty tuple reports no error; it ends
\* by emitting one struct without fields, named by the fresh identifier,
\* and the alias bound to it.
C10_EmptyTupleEmitsUnitStruct ==
    input = EmptyTupleInvocation =>
        /\ pc # "error"
        /\ pc = "done" =>
            /\ Len(output) = 2
            /\ output[1].k = "struct" /\ output[1].fields = <<>>
            /\ output[1].ident = GensymIdent(1)
            /\ output[2].k = "type" /\ output[2].ident = Ident("Q")
            /\ output[2].target = output[1].ident

\* The expansion of `Q, ()` has ended with its struct and alias.
C10_Witness ==
    /\ input = EmptyTupleInvocation
    /\ Emitted
    /\ Len(output) = 2 /\ output[1].fields = <<>>


----------------------------------------------------------------------------
(* Termination of the tuple macro.  The compiler goes on expanding for as  *)
(* long as an invocation is left, hence the weak fairness of every step.   *)

SpecTupleFair == SpecTuple /\ WF_vars(NextTuple)

Terminated == pc \in {"done", "error"}

\* Tokens of a sequence, a group counted as its two delimiters and what is
\* between them.
RECURSIVE TotalTokens(_)
TotalTokens(s) ==
    IF Len(s) = 0 THEN 0
    ELSE LET t == Head(s)
             here == IF t.k = "group" THEN 2 + TotalTokens(t.b) ELSE 1
         IN  here + TotalTokens(Tail(s))

\* __paren written in the input where the scan reads it.
RECURSIVE HasMarker(_)
HasMarker(s) ==
    \E n \in DOMAIN s :
        \/ s[n] = ParenMarker
        \/ IsParen(s[n]) /\ HasMarker(s[n].b)

\* `alias, (tuple)` and nothing else, without the macro's own marker.
OneTupleInvocation == IsOneTuple /\ ~HasMarker(TupleBody)
BeginsAgain == pc = "expand" /\ depth > 0 /\ Selected(inv) = "begin"

\* C11 as stated: whatever follows the alias name, the number of rewrite
\* steps taken is bounded by the number of tokens of the invocation, and the
\* expansion does not come back to the rule it started with.
C11_StepsBoundedByTokens ==
    /\ depth <= TotalTokens(input) + 1
    /\ ~BeginsAgain

\* C11, what the rules do guarantee: an invocation of the form
\* `alias, (tuple)` ends by emitting after at most as many steps as it has
\* tokens plus one and never comes back to the Begin rule; an invocation with
\* anything else after the alias name never emits, comes back to the Begin
\* rule with more tokens than before and ends only when the compiler's
\* recursion limit stops it, with an error.
C11_Terminates ==
    /\ [](OneTupleInvocation =>
            /\ depth <= TotalTokens(input) + 1
            /\ pc # "error"
            /\ ~BeginsAgain)
    /\ [](Emitted => OneTupleInvocation)
    /\ [](pc = "error" /\ Len(input) > 2 =>
            /\ depth = RecursionLimit
            /\ TotalTokens(inv) > TotalTokens(input))
    /\ <>Terminated

\* A nested tuple has been emitted after exactly that many steps.
C11_Witness ==
    /\ Emitted /\ OneTupleInvocation /\ Nesting(TupleBody) >= 2
    /\ depth = TotalTokens(input) + 1

\* An invocation with a token after the tuple is back at the Begin rule.
C11_BackAtBegin ==
    BeginsAgain /\ ~IsOneTuple /\ depth > TotalTokens(input) + 1


----------------------------------------------------------------------------
(* Several invocations of the tuple macro in one crate.  The compiler      *)
(* expands them one after the other; gensym counts on across them.         *)

MaxExpansions == 3

UnitInvocations ==
    { <<Ident("Q"), Comma, Paren(<<Amp, TypeName>>)>>,
      <<Ident("R"), Comma, Paren(<<Amp, TypeName>>)>>,
      <<Ident("Q"), Comma, Paren(<<Paren(<<AmpAmp, TypeName>>), Comma, TypeName>>)>>,
      <<Ident("Q"), Comma, Paren(<<>>)>>,
      <<Ident("Q"), Comma>>,
      <<Ident("Q"), Comma, Paren(<<Amp, TypeName>>), TypeName>> }

InitUnit ==
    /\ gen = "gen_tuple_query_component_providers"
    /\ input \in UnitInvocations
    /\ inv = input
    /\ pc = "expand"
    /\ depth = 0
    /\ gensyms = 0
    /\ unit = <<>>
    /\ stream_refs = <<>>
    /\ stream_muts = <<>>
    /\ stream_option_refs = <<>>
    /\ result = None
    /\ output = <<>>

\* What is kept of an expansion that has ended.
Expansion == [input |-> input, output |-> output, gensyms |-> gensyms]

\* The expansion has ended, the compiler goes on with the next invocation.
NextExpansion ==
    /\ Terminated
    /\ Len(unit) + 1 < MaxExpansions
    /\ unit' = Append(unit, Expansion)
    /\ input' \in UnitInvocations
    /\ inv' = input'
    /\ pc' = "expand"
    /\ depth' = 0
    /\ output' = <<>>
    /\ UNCHANGED <<gen, stream_refs, stream_muts, stream_option_refs, result, gensyms>>

NextUnit ==
    \/ NextTuple
    \/ NextExpansion

SpecUnit == InitUnit /\ [][NextUnit]_vars

\* The expansions that have ended, in order, and what each has done.
Ended == unit \o (IF Terminated THEN <<Expansion>> ELSE <<>>)
GensymCalls(i) == Ended[i].gensyms - (IF i = 1 THEN 0 ELSE Ended[i - 1].gensyms)
HasEmitted(x) == \E n \in DOMAIN x.output : x.output[n].k \in {"struct", "type"}
IsOneTupleOf(x) ==
    Len(x.input) = 3 /\ IsParen(x.input[3]) /\ ~HasMarker(x.input[3].b)
StructsOf(x) == SelectSeq(x.output, LAMBDA item : item.k = "struct")
AliasesOf(x) == SelectSeq(x.output, LAMBDA item : item.k = "type")

============================================================================
